---- MODULE Spec2Model ----
(***************************************************************************)
(* Peer-review automation: the iterative review orchestrator               *)
(* (lib/orchestrator/index.ts), the Claude gateway with retry              *)
(* (lib/claude/client.ts), the single-round topol-review endpoint          *)
(* (app/api/review/route.ts, second half) and the JSON response parser.    *)
(*                                                                         *)
(* A run is one request.  `workflow` says which entry point serves it.     *)
(* Steps are the synchronous segments between two awaits of the code.      *)
(* Model responses are abstracted to the fields the control flow reads;    *)
(* token amounts are counted in thousands.                                 *)
(***************************************************************************)
EXTENDS Integers, Sequences, FiniteSets, TLC

VARIABLES workflow, apiKeySet, isPlainText, textLen, onProgress, progress,
          pc, i, call, assessment, reviews, iterations, result, calls,
          inflight, tokenUsage, spent,
          text, parsed, wrapping, requests

vars == <<workflow, apiKeySet, isPlainText, textLen, onProgress, progress,
          pc, i, call, assessment, reviews, iterations, result, calls,
          inflight, tokenUsage, spent,
          text, parsed, wrapping, requests>>

runVars == <<workflow, apiKeySet, isPlainText, textLen, onProgress, progress,
             pc, i, call, assessment, reviews, iterations, result, calls,
             inflight, tokenUsage, spent>>

parseVars == <<text, parsed, wrapping>>

----------------------------------------------------------------------------
(* Program constants *)

maxIterations == 3

maxRetries == 3

MinPlainTextLength == 100

MinPdfTextLength == 500

MAX_ARTICLE_LENGTH == 15000

AbstractWords == 300

TokenLimit == 100

(* Bounds of the model *)

MaxTextLen == 4

MaxCallTokens == 2

(* gateway calls one request makes at most *)
CallsPerRequest == 3

(* characters a word of the manuscript takes, its separator included *)
WordLen == 6

----------------------------------------------------------------------------
(* Value domains read by the control flow *)

ReviewRecommendation == {"Accept", "Minor Revisions", "Major Revisions", "Reject"}

EditorDecisions == {"Accept for Review", "Desk Reject"}

SynthesisDecisions == {"Continue", "Accept", "Reject"}

Rationales == {"", "out of scope"}

(* the rationales an editor gives with a decision: the report reads the *)
(* rationale of a desk reject only *)
RationalesOf(decision) == IF decision = "Desk Reject" THEN Rationales ELSE {"in scope"}

ReviewerPairs == {<<"Cardiology", "Biostatistics">>, <<"Biostatistics", "Cardiology">>}

(* boundary lengths of the text: typed text, or text extracted from a PDF *)
TextLengths(plain) ==
    IF plain THEN {MinPlainTextLength - 1, MinPlainTextLength, MAX_ARTICLE_LENGTH + 1}
    ELSE {MinPdfTextLength - 1, MinPdfTextLength}

Guidances == {"", "check the statistics"}

TokenCosts == {30 * k : k \in 1..MaxCallTokens}

(* the optional progress callback of orchestrateReview: not given, one *)
(* that returns, one that throws *)
Callbacks == {"absent", "returns", "throws"}

NoCall == [role |-> "none", round |-> 0, retryCount |-> 0, dispatches |-> 0,
           status |-> "idle", error |-> ""]

(* errors of anthropic.messages.create other than the rate-limit response *)
FailureKinds == {"network failure", "invalid request"}

NoResult == [kind |-> "none", error |-> "", report |-> <<>>]

NoFlight == [r \in 1..2 |-> [status |-> "none", parseable |-> FALSE, recommendation |-> ""]]

----------------------------------------------------------------------------
(* lib/orchestrator/index.ts: report assembly *)

scoreMap(rec) ==
    CASE rec = "Accept" -> 4
      [] rec = "Minor Revisions" -> 3
      [] rec = "Major Revisions" -> 2
      [] rec = "Reject" -> 1

(* avgScore = (a + b) / 2 is compared with 3.5, 2.5 and 1.5; the model *)
(* keeps twice the average so that the comparison stays in the integers. *)
determineFinalRecommendationStrict(lastReviews) ==
    LET twiceAvg == scoreMap(lastReviews[1].recommendation)
                    + scoreMap(lastReviews[2].recommendation)
    IN  IF twiceAvg > 7 THEN "Accept"
        ELSE IF twiceAvg > 5 THEN "Minor Revisions"
        ELSE IF twiceAvg > 3 THEN "Major Revisions"
        ELSE "Reject"

determineFinalRecommendation(lastReviews) ==
    LET twiceAvg == scoreMap(lastReviews[1].recommendation)
                    + scoreMap(lastReviews[2].recommendation)
    IN  IF twiceAvg >= 7 THEN "Accept"
        ELSE IF twiceAvg >= 5 THEN "Minor Revisions"
        ELSE IF twiceAvg >= 3 THEN "Major Revisions"
        ELSE "Reject"

(* synthesis?.field || []: the list of an optional synthesis *)
ListOf(synthesis, field) ==
    IF synthesis = <<>> THEN <<>> ELSE synthesis[1][field]

TrajectoryEntry(iteration) ==
    <<[improvements |-> ListOf(iteration.synthesis, "simulatedRevisions"),
       persistentIssues |-> ListOf(iteration.synthesis, "criticalIssues")]>>

Convergence(its) ==
    LET last == its[Len(its)]
        positiveReviews == {r \in 1..2 : last.reviews[r].recommendation
                                             \in {"Accept", "Minor Revisions"}}
    IN  IF last.synthesis # <<>>
        THEN last.synthesis[1].progressSummary
        ELSE IF Cardinality(positiveReviews) = 2
        THEN "Both reviewers recommend acceptance or minor revisions."
        ELSE IF Cardinality(positiveReviews) = 1
        THEN "Mixed recommendations - some concerns remain."
        ELSE "Significant revisions needed based on reviewer feedback."

(* an entry that is not set is the empty sequence *)
analyzeTrajectoryOffByOne(its) ==
    [iteration1to2 |-> IF Len(its) >= 2 THEN TrajectoryEntry(its[1]) ELSE <<>>,
     iteration2to3 |-> IF Len(its) >= 3 THEN TrajectoryEntry(its[2]) ELSE <<>>,
     overallConvergence |-> Convergence(its)]

analyzeTrajectory(its) ==
    [iteration1to2 |-> IF Len(its) >= 2 THEN TrajectoryEntry(its[2]) ELSE <<>>,
     iteration2to3 |-> IF Len(its) >= 3 THEN TrajectoryEntry(its[3]) ELSE <<>>,
     overallConvergence |-> Convergence(its)]

NotReviewed ==
    [iteration1to2 |-> <<>>, iteration2to3 |-> <<>>,
     overallConvergence |-> "Article was not sent for peer review."]

generateFinalRationale(recommendation, its) ==
    <<"After peer review, the final recommendation is", recommendation,
      "Final reviewers recommended",
      its[Len(its)].reviews[1].recommendation, its[Len(its)].reviews[2].recommendation>>

generateFinalReportOnSynthesis(its) ==
    LET last == its[Len(its)]
        finalRecommendation ==
            IF last.synthesis # <<>> /\ last.synthesis[1].decision \in {"Accept", "Reject"}
            THEN last.synthesis[1].decision
            ELSE determineFinalRecommendation(last.reviews)
    IN  [totalIterations |-> Len(its),
         finalRecommendation |-> finalRecommendation,
         finalRationale |-> generateFinalRationale(finalRecommendation, its),
         iterations |-> its,
         trajectoryAnalysis |-> analyzeTrajectory(its)]

generateFinalReport(its) ==
    LET finalRecommendation == determineFinalRecommendation(its[Len(its)].reviews)
    IN  [totalIterations |-> Len(its),
         finalRecommendation |-> finalRecommendation,
         finalRationale |-> generateFinalRationale(finalRecommendation, its),
         iterations |-> its,
         trajectoryAnalysis |-> analyzeTrajectory(its)]

createDeskRejectReportWithRound(editorialAssessment) ==
    [totalIterations |-> 1,
     finalRecommendation |-> "Reject",
     finalRationale |-> <<"This article was desk rejected by the Editor.">>,
     iterations |-> <<>>,
     trajectoryAnalysis |-> NotReviewed]

createDeskRejectReport(editorialAssessment) ==
    [totalIterations |-> 0,
     finalRecommendation |-> "Reject",
     finalRationale |-> <<"This article was desk rejected by the Editor.",
                          editorialAssessment.rationale>>,
     iterations |-> <<>>,
     trajectoryAnalysis |-> NotReviewed]

Returned(report) == [kind |-> "report", error |-> "", report |-> <<report>>]

(* An exception leaving orchestrateReview: there is no try/catch in the *)
(* orchestrator, the caller gets the error and no report. *)
ThrownKeepingPartial(message) ==
    IF iterations # <<>>
    THEN [kind |-> "report", error |-> message, report |-> <<generateFinalReport(iterations)>>]
    ELSE [kind |-> "error", error |-> message, report |-> <<>>]

Thrown(message) == [kind |-> "error", error |-> message, report |-> <<>>]

----------------------------------------------------------------------------
(* lib/orchestrator/index.ts: loop conditions *)

LoopContinuesOneMore(n) == n <= maxIterations + 1

LoopContinues(n) == n <= maxIterations

SynthesisWantedLate(n) == n < maxIterations - 1

SynthesisWantedAlways(n) == n <= maxIterations

SynthesisWanted(n) == n < maxIterations

Positive(rec) == rec = "Accept" \/ rec = "Minor Revisions"

StopIteratingOnAcceptOnly(synthesis, r1, r2) ==
    synthesis.decision = "Accept"

StopIteratingOnFlag(synthesis, r1, r2) ==
    \/ synthesis.decision = "Accept" \/ synthesis.decision = "Reject"
    \/ Positive(r1.recommendation) /\ Positive(r2.recommendation)
    \/ ~synthesis.shouldContinue

StopIterating(synthesis, r1, r2) ==
    \/ synthesis.decision = "Accept" \/ synthesis.decision = "Reject"
    \/ Positive(r1.recommendation) /\ Positive(r2.recommendation)

----------------------------------------------------------------------------
(* Prompts.  A manuscript is known by its length; a text put in a prompt   *)
(* is known by the number of leading characters of the manuscript it keeps *)
(* and by what is appended to them.  A prompt is known by the texts, the   *)
(* specialty, the editor's guidance and the reviewer feedback put in it.   *)

Min(a, b) == IF a <= b THEN a ELSE b

(* lib/claude/client.ts *)
truncateArticleUnmarked(len) ==
    IF len <= MAX_ARTICLE_LENGTH
    THEN [kept |-> len, suffix |-> ""]
    ELSE [kept |-> MAX_ARTICLE_LENGTH, suffix |-> ""]

truncateArticle(len) ==
    IF len <= MAX_ARTICLE_LENGTH
    THEN [kept |-> len, suffix |-> ""]
    ELSE [kept |-> MAX_ARTICLE_LENGTH, suffix |-> "[Article truncated due to length...]"]

(* lib/claude/prompts.ts *)
getEditorPrompt(articleText) ==
    [text |-> <<articleText>>, specialty |-> <<>>, guidance |-> <<>>, feedback |-> <<>>]

getReviewerPromptWithHistory(specialty, articleText) ==
    [text |-> <<articleText>>, specialty |-> <<specialty>>, guidance |-> <<>>,
     feedback |-> IF iterations = <<>> THEN <<>>
                  ELSE iterations[Len(iterations)].reviews]

getReviewerPromptWithFocus(specialty, articleText) ==
    [text |-> <<articleText>>, specialty |-> <<specialty>>, guidance |-> <<>>,
     feedback |-> IF iterations = <<>> THEN <<>>
                  ELSE iterations[Len(iterations)].synthesis]

getReviewerPrompt(specialty, articleText) ==
    [text |-> <<articleText>>, specialty |-> <<specialty>>, guidance |-> <<>>,
     feedback |-> <<>>]

getSynthesisPrompt(articleText, review1, review2) ==
    [text |-> <<articleText>>, specialty |-> <<>>, guidance |-> <<>>,
     feedback |-> <<review1, review2>>]

(* lib/claude/topol-prompts.ts.  The manuscripts of the model have no      *)
(* section heading and no methods keyword: extractAbstract takes the first *)
(* 300 words and appends "...", extractMethods answers with its notice.    *)
extractAbstract(len) ==
    [kept |-> Min(len, AbstractWords * WordLen), suffix |-> "..."]

extractMethods(len) ==
    [kept |-> 0, suffix |-> "Methods section not clearly identified."]

getEricTopolPrompt(abstractText, methodsText) ==
    [text |-> <<abstractText, methodsText>>, specialty |-> <<>>, guidance |-> <<>>,
     feedback |-> <<>>]

getMedicalReviewerPrompt(specialty, abstractText, methodsText, editorGuidance) ==
    [text |-> <<abstractText, methodsText>>, specialty |-> <<specialty>>,
     guidance |-> <<editorGuidance>>, feedback |-> <<>>]

----------------------------------------------------------------------------
(* lib/claude/client.ts: callClaude with retry *)

RetryAllowedOneMore(retryCount) == retryCount <= maxRetries + 1

RetryAllowed(retryCount) == retryCount <= maxRetries

NewCall(role, round) ==
    [role |-> role, round |-> round, retryCount |-> 0, dispatches |-> 0,
     status |-> "delay", error |-> ""]

(* the log of the calls made: which call, of which round, with what in its *)
(* prompt, and how it ended *)
CallEntry(role, round, prompt) ==
    [role |-> role, round |-> round, outcome |-> "pending", prompt |-> prompt]

LogCall(role, round, prompt) == Append(calls, CallEntry(role, round, prompt))

SettleNothing(log, k, outcome) == log

Settle(log, k, outcome) == [log EXCEPT ![k].outcome = outcome]

(* lib/claude/client.ts: the review built by getPeerReview from the answer; *)
(* the specialty is the one the call was made with, not one read from the *)
(* answer *)
PeerReviewUnlabelled(specialty, recommendation) ==
    [reviewerSpecialty |-> "", recommendation |-> recommendation]

PeerReview(specialty, recommendation) ==
    [reviewerSpecialty |-> specialty, recommendation |-> recommendation]

----------------------------------------------------------------------------
(* lib/orchestrator/index.ts: orchestrateReview *)

Fail(message) ==
    /\ result' = Thrown(message)
    /\ pc' = "done"

(* !articleText || articleText.length < 100, the same test in both entry *)
(* points *)
TooShortPlainBelowOnly(len) == len < MinPlainTextLength - 1

TooShortPlain(len) == len < MinPlainTextLength

(* onProgress?.(stage, iteration, progress, message): the call is made in *)
(* line, outside any try, and its value is dropped; an exception of the *)
(* callback leaves orchestrateReview.  CallbackThrows is the callback that *)
(* throws when it is invoked. *)
CallbackThrows == onProgress = "throws"

(* the calls received by the callback so far, each known by its stage and *)
(* its percentage, extended by the calls of one synchronous segment *)
Emit(events) == IF onProgress = "absent" THEN progress ELSE progress \o events

(* the percentages of the loop body: 20, 25 and 30 in round 1, 25 more in *)
(* each later round *)
RoundProgressWide(stage, n) ==
    [stage |-> stage,
     pct |-> (CASE stage = "reviewer_1" -> 20
                [] stage = "reviewer_2" -> 25
                [] stage = "synthesis" -> 30) + (n - 1) * 40]

RoundProgress(stage, n) ==
    [stage |-> stage,
     pct |-> (CASE stage = "reviewer_1" -> 20
                [] stage = "reviewer_2" -> 25
                [] stage = "synthesis" -> 30) + (n - 1) * 25]

Complete == <<[stage |-> "complete", pct |-> 95], [stage |-> "complete", pct |-> 100]>>

(* validateAPIKey, the first progress call, then the length check of the *)
(* plain-text branch *)
Start ==
    /\ workflow = "review" /\ pc = "start"
    /\ IF ~apiKeySet
       THEN Fail("ANTHROPIC_API_KEY environment variable is not set") /\ UNCHANGED progress
       ELSE IF CallbackThrows
       THEN /\ Fail("progress callback threw")
            /\ progress' = Emit(<<[stage |-> IF isPlainText THEN "processing_text"
                                                 ELSE "extracting_text",
                                     pct |-> 5]>>)
       ELSE IF isPlainText
       THEN IF TooShortPlain(textLen)
            THEN /\ Fail("Article text is too short")
                 /\ progress' = Emit(<<[stage |-> "processing_text", pct |-> 5]>>)
            ELSE /\ pc' = "criteria" /\ UNCHANGED result
                 /\ progress' = Emit(<<[stage |-> "processing_text", pct |-> 5],
                                        [stage |-> "fetching_criteria", pct |-> 10]>>)
       ELSE /\ pc' = "extract" /\ UNCHANGED result
            /\ progress' = Emit(<<[stage |-> "extracting_text", pct |-> 5]>>)
    /\ UNCHANGED <<workflow, apiKeySet, isPlainText, textLen, onProgress, i, call, assessment,
                   reviews, iterations, calls, inflight, tokenUsage, spent, parseVars, requests>>

(* extractTextFromBase64PDF and the length check of the PDF branch; *)
(* textLen is the length of the extracted text *)
ExtractPdf ==
    /\ workflow = "review" /\ pc = "extract"
    /\ \E extracted \in BOOLEAN :
          IF ~extracted
          THEN Fail("Failed to extract text from PDF") /\ UNCHANGED progress
          ELSE IF textLen < MinPdfTextLength
          THEN Fail("Extracted text is too short") /\ UNCHANGED progress
          ELSE /\ pc' = "criteria" /\ UNCHANGED result
               /\ progress' = Emit(<<[stage |-> "fetching_criteria", pct |-> 10]>>)
    /\ UNCHANGED <<workflow, apiKeySet, isPlainText, textLen, onProgress, i, call, assessment,
                   reviews, iterations, calls, inflight, tokenUsage, spent, parseVars, requests>>

(* fetchJournalCriteria never throws; getEditorialAssessment then enters *)
(* callClaude and suspends in its first delay *)
FetchCriteria ==
    /\ workflow = "review" /\ pc = "criteria"
    /\ call' = NewCall("editor", 1)
    /\ calls' = LogCall("editor", 1, getEditorPrompt(truncateArticle(textLen)))
    /\ pc' = "call"
    /\ progress' = Emit(<<[stage |-> "editorial_assessment", pct |-> 15]>>)
    /\ UNCHANGED <<workflow, apiKeySet, isPlainText, textLen, onProgress, i, assessment,
                   reviews, iterations, result, inflight, tokenUsage, spent, parseVars, requests>>

(* callClaude: the delay is over, anthropic.messages.create is issued *)
Dispatch ==
    /\ workflow = "review" /\ pc = "call" /\ call.status = "delay"
    /\ call' = [call EXCEPT !.status = "waiting", !.dispatches = @ + 1]
    /\ UNCHANGED <<workflow, apiKeySet, isPlainText, textLen, onProgress, progress,
                   pc, i, assessment,
                   reviews, iterations, result, calls, inflight, tokenUsage, spent,
                   parseVars, requests>>

(* the while loop goes round: the same prompt is sent again after the *)
(* backoff delay *)
RetryAsNextRound(c, retryCount) ==
    [c EXCEPT !.retryCount = retryCount, !.status = "delay", !.round = @ + 1]

Retry(c, retryCount) == [c EXCEPT !.retryCount = retryCount, !.status = "delay"]

(* callClaude: the catch block on status 429 / rate_limit_error *)
RespondRateLimit ==
    /\ workflow = "review" /\ pc = "call" /\ call.status = "waiting"
    /\ LET retryCount == call.retryCount + 1
       IN  IF RetryAllowed(retryCount)
           THEN /\ call' = Retry(call, retryCount)
                /\ UNCHANGED <<pc, result, calls>>
           ELSE /\ call' = [call EXCEPT !.retryCount = retryCount, !.status = "threw",
                                        !.error = "rate limit"]
                /\ calls' = Settle(calls, Len(calls), "failed")
                /\ Fail("Claude API call failed")
    /\ UNCHANGED <<workflow, apiKeySet, isPlainText, textLen, onProgress, progress, i, assessment,
                   reviews, iterations, inflight, tokenUsage, spent, parseVars, requests>>

(* callClaude: the catch block on any other error, which includes the *)
(* 'No text content' error thrown inside the try *)
RespondError ==
    /\ workflow = "review" /\ pc = "call" /\ call.status = "waiting"
    /\ \E kind \in FailureKinds : call' = [call EXCEPT !.status = "threw", !.error = kind]
    /\ calls' = Settle(calls, Len(calls), "failed")
    /\ Fail("Claude API call failed")
    /\ UNCHANGED <<workflow, apiKeySet, isPlainText, textLen, onProgress, progress, i, assessment,
                   reviews, iterations, inflight, tokenUsage, spent, parseVars, requests>>

(* callClaude returns a text from which parseClaudeJSON extracts nothing *)
RespondUnparseable ==
    /\ workflow = "review" /\ pc = "call" /\ call.status = "waiting"
    /\ call' = [call EXCEPT !.status = "returned"]
    /\ calls' = Settle(calls, Len(calls), "failed")
    /\ Fail("Could not extract valid JSON from response")
    /\ UNCHANGED <<workflow, apiKeySet, isPlainText, textLen, onProgress, progress, i, assessment,
                   reviews, iterations, inflight, tokenUsage, spent, parseVars, requests>>

(* the for loop header: start round n or leave the loop and build the report *)
EnterRound(n, its, reviewer1Specialty) ==
    IF LoopContinues(n)
    THEN /\ i' = n
         /\ call' = NewCall("reviewer1", n)
         /\ calls' = Append(Settle(calls, Len(calls), "ok"),
                            CallEntry("reviewer1", n,
                                      getReviewerPrompt(reviewer1Specialty,
                                                        truncateArticle(textLen))))
         /\ progress' = Emit(<<RoundProgress("reviewer_1", n)>>)
         /\ UNCHANGED <<pc, result>>
    ELSE /\ call' = [call EXCEPT !.status = "returned"]
         /\ calls' = Settle(calls, Len(calls), "ok")
         /\ result' = Returned(generateFinalReport(its))
         /\ pc' = "done"
         /\ progress' = Emit(Complete)
         /\ UNCHANGED i

LeaveLoop(its) ==
    /\ call' = [call EXCEPT !.status = "returned"]
    /\ calls' = Settle(calls, Len(calls), "ok")
    /\ result' = Returned(generateFinalReport(its))
    /\ pc' = "done"
    /\ progress' = Emit(Complete)
    /\ UNCHANGED i

(* getEditorialAssessment returns; desk reject short-circuit or round 1 *)
EditorReturns ==
    /\ workflow = "review" /\ pc = "call" /\ call.status = "waiting"
    /\ call.role = "editor"
    /\ \E decision \in EditorDecisions, reviewers \in ReviewerPairs :
       \E rationale \in RationalesOf(decision) :
         LET editorialAssessment == [decision |-> decision, rationale |-> rationale,
                                     selectedReviewers |-> reviewers]
         IN  /\ assessment' = <<editorialAssessment>>
             /\ IF decision = "Desk Reject"
                THEN /\ call' = [call EXCEPT !.status = "returned"]
                     /\ calls' = Settle(calls, Len(calls), "ok")
                     /\ result' = Returned(createDeskRejectReport(editorialAssessment))
                     /\ pc' = "done"
                     /\ UNCHANGED <<i, progress>>
                ELSE EnterRound(1, <<>>, reviewers[1])
    /\ UNCHANGED <<workflow, apiKeySet, isPlainText, textLen, onProgress,
                   reviews, iterations, inflight, tokenUsage, spent, parseVars, requests>>

(* getPeerReview of reviewer 1 returns; reviewer 2 is called next *)
Reviewer1Returns ==
    /\ workflow = "review" /\ pc = "call" /\ call.status = "waiting"
    /\ call.role = "reviewer1"
    /\ \E recommendation \in ReviewRecommendation :
         reviews' = <<PeerReview(assessment[1].selectedReviewers[1], recommendation)>>
    /\ call' = NewCall("reviewer2", i)
    /\ calls' = Append(Settle(calls, Len(calls), "ok"),
                       CallEntry("reviewer2", i,
                                 getReviewerPrompt(assessment[1].selectedReviewers[2],
                                                   truncateArticle(textLen))))
    /\ progress' = Emit(<<RoundProgress("reviewer_2", i)>>)
    /\ UNCHANGED <<workflow, apiKeySet, isPlainText, textLen, onProgress, pc, i, assessment,
                   iterations, result, inflight, tokenUsage, spent, parseVars, requests>>

NewIterationWithAssessment(n, r1, r2) ==
    [iterationNumber |-> n,
     reviews |-> <<r1, r2>>,
     editorialAssessment |-> assessment,
     synthesis |-> <<>>]

NewIteration(n, r1, r2) ==
    [iterationNumber |-> n,
     reviews |-> <<r1, r2>>,
     editorialAssessment |-> IF n = 1 THEN assessment ELSE <<>>,
     synthesis |-> <<>>]

(* getPeerReview of reviewer 2 returns; synthesis is called unless this *)
(* is the final iteration, whose record is pushed as it is *)
Reviewer2Returns ==
    /\ workflow = "review" /\ pc = "call" /\ call.status = "waiting"
    /\ call.role = "reviewer2"
    /\ \E recommendation \in ReviewRecommendation :
         LET review2 == PeerReview(assessment[1].selectedReviewers[2], recommendation)
             iteration == NewIteration(i, reviews[1], review2)
         IN  IF SynthesisWanted(i)
             THEN /\ reviews' = <<reviews[1], review2>>
                  /\ call' = NewCall("synthesis", i)
                  /\ calls' = Append(Settle(calls, Len(calls), "ok"),
                                     CallEntry("synthesis", i,
                                               getSynthesisPrompt(truncateArticle(textLen),
                                                                  reviews[1], review2)))
                  /\ progress' = Emit(<<RoundProgress("synthesis", i)>>)
                  /\ UNCHANGED <<pc, i, iterations, result>>
             ELSE /\ reviews' = <<>>
                  /\ iterations' = Append(iterations, iteration)
                  /\ EnterRound(i + 1, Append(iterations, iteration),
                                assessment[1].selectedReviewers[1])
    /\ UNCHANGED <<workflow, apiKeySet, isPlainText, textLen, onProgress, assessment,
                   inflight, tokenUsage, spent, parseVars, requests>>

(* the answers of the synthesis call of round n: the lists name the round *)
(* they were written in; revisions are simulated for a round to come *)
SynthesisResponses(n) ==
    {[decision |-> decision,
      shouldContinue |-> shouldContinue,
      progressSummary |-> "progress summary",
      simulatedRevisions |-> IF decision = "Continue"
                             THEN <<<<"revision simulated after round", n>>>> ELSE <<>>,
      criticalIssues |-> IF decision # "Accept"
                         THEN <<<<"critical issue of round", n>>>> ELSE <<>>] :
        decision \in SynthesisDecisions, shouldContinue \in BOOLEAN}

(* lib/claude/client.ts: the synthesis built by getIterationSynthesis *)
IterationSynthesis(iterationNumber, answer) ==
    [iterationNumber |-> iterationNumber,
     decision |-> answer.decision,
     shouldContinue |-> answer.shouldContinue,
     progressSummary |-> answer.progressSummary,
     simulatedRevisions |-> answer.simulatedRevisions,
     criticalIssues |-> answer.criticalIssues]

(* getIterationSynthesis returns; the record is pushed and the two stop *)
(* conditions are checked *)
SynthesisReturns ==
    /\ workflow = "review" /\ pc = "call" /\ call.status = "waiting"
    /\ call.role = "synthesis"
    /\ \E answer \in SynthesisResponses(i) :
         LET synthesis == IterationSynthesis(i, answer)
             iteration == [NewIteration(i, reviews[1], reviews[2])
                             EXCEPT !.synthesis = <<synthesis>>]
         IN  /\ iterations' = Append(iterations, iteration)
             /\ IF StopIterating(synthesis, reviews[1], reviews[2])
                THEN LeaveLoop(Append(iterations, iteration))
                ELSE EnterRound(i + 1, Append(iterations, iteration),
                                assessment[1].selectedReviewers[1])
    /\ reviews' = <<>>
    /\ UNCHANGED <<workflow, apiKeySet, isPlainText, textLen, onProgress, assessment,
                   inflight, tokenUsage, spent, parseVars, requests>>

----------------------------------------------------------------------------
(* lib/claude/client.ts exports used by the topol-review endpoint *)

resetTokenUsage == 0

checkTokenLimit(used) == used < TokenLimit

(* app/api/review/route.ts, topol-review: callClaude and POST *)

(* callClaude after a successful create: it logs the usage and returns *)
(* the text; nothing is added to the counter *)
UsageAfterCall(used, tokens) == used

(* Promise.all([callClaude(..), callClaude(..)]): both calls run up to *)
(* their await, so both requests are out before any response is handled *)
FanOutOneAtATime == [r \in 1..2 |-> [status |-> IF r = 1 THEN "sent" ELSE "none",
                                      parseable |-> FALSE, recommendation |-> ""]]

FanOut == [r \in 1..2 |-> [status |-> "sent", parseable |-> FALSE, recommendation |-> ""]]

AllResolved(flights) == \A r \in 1..2 : flights[r].status = "ok"

TopolStart ==
    /\ workflow = "topol" /\ pc = "start"
    /\ tokenUsage' = resetTokenUsage
    /\ IF TooShortPlain(textLen)
       THEN /\ result' = Thrown("Article text must be at least 100 characters")
            /\ pc' = "done"
            /\ UNCHANGED calls
       ELSE IF checkTokenLimit(tokenUsage')
       THEN /\ calls' = LogCall("editor", 1,
                                getEricTopolPrompt(extractAbstract(textLen),
                                                   extractMethods(textLen)))
            /\ pc' = "t_editor"
            /\ UNCHANGED result
       ELSE /\ result' = Thrown("Token limit exceeded")
            /\ pc' = "done"
            /\ UNCHANGED calls
    /\ UNCHANGED <<workflow, apiKeySet, isPlainText, textLen, onProgress, progress,
                   i, call, assessment,
                   reviews, iterations, inflight, spent, parseVars, requests>>

(* the editor call rejects, or its text has no JSON: the catch block *)
(* answers.  The endpoint does not call validateAPIKey: with no key the *)
(* request gets as far as anthropic.messages.create, which cannot answer. *)
TopolEditorFails ==
    /\ workflow = "topol" /\ pc = "t_editor"
    /\ \E answered \in BOOLEAN, tokens \in TokenCosts :
         /\ answered => apiKeySet
         /\ spent' = IF answered THEN spent + tokens ELSE spent
         /\ tokenUsage' = IF answered THEN UsageAfterCall(tokenUsage, tokens) ELSE tokenUsage
    /\ calls' = Settle(calls, Len(calls), "failed")
    /\ result' = Thrown("editor call failed")
    /\ pc' = "done"
    /\ UNCHANGED <<workflow, apiKeySet, isPlainText, textLen, onProgress, progress,
                   i, call, assessment,
                   reviews, iterations, inflight, parseVars, requests>>

TopolEditorReturns ==
    /\ workflow = "topol" /\ pc = "t_editor" /\ apiKeySet
    /\ \E tokens \in TokenCosts, decision \in EditorDecisions,
          reviewers \in ReviewerPairs, guidance \in Guidances :
       \E rationale \in RationalesOf(decision) :
         LET editorDecision == [decision |-> decision, rationale |-> rationale,
                                selectedReviewers |-> reviewers,
                                guidanceForReviewers |-> guidance]
             used == UsageAfterCall(tokenUsage, tokens)
         IN  /\ spent' = spent + tokens
             /\ tokenUsage' = used
             /\ assessment' = <<editorDecision>>
             /\ IF decision = "Desk Reject"
                THEN /\ calls' = Settle(calls, Len(calls), "ok")
                     /\ result' = Returned([editorDecision |-> editorDecision,
                                            reviews |-> <<>>])
                     /\ pc' = "done"
                     /\ UNCHANGED inflight
                ELSE IF checkTokenLimit(used)
                THEN /\ inflight' = FanOut
                     /\ calls' = Settle(calls, Len(calls), "ok")
                                   \o [r \in 1..2 |->
                                        [role |-> IF r = 1 THEN "reviewer1" ELSE "reviewer2",
                                         round |-> 1,
                                         outcome |-> IF inflight'[r].status = "sent"
                                                     THEN "pending" ELSE "unsent",
                                         prompt |-> getMedicalReviewerPrompt(
                                                        reviewers[r],
                                                        extractAbstract(textLen),
                                                        extractMethods(textLen),
                                                        guidance)]]
                     /\ pc' = "t_await"
                     /\ UNCHANGED result
                ELSE /\ calls' = Settle(calls, Len(calls), "ok")
                     /\ result' = Thrown("Token limit exceeded")
                     /\ pc' = "done"
                     /\ UNCHANGED inflight
    /\ UNCHANGED <<workflow, apiKeySet, isPlainText, textLen, onProgress, progress, i, call,
                   reviews, iterations, parseVars, requests>>

(* one of the two reviewer calls rejects: Promise.all rejects at once *)
TopolReviewerFails(r) ==
    /\ workflow = "topol" /\ pc = "t_await" /\ inflight[r].status = "sent"
    /\ inflight' = [inflight EXCEPT ![r].status = "failed"]
    /\ calls' = Settle(calls, 1 + r, "failed")
    /\ result' = Thrown("reviewer call failed")
    /\ pc' = "done"
    /\ UNCHANGED <<workflow, apiKeySet, isPlainText, textLen, onProgress, progress,
                   i, call, assessment,
                   reviews, iterations, tokenUsage, spent, parseVars, requests>>

(* one of the two reviewer calls resolves; when it is the second one the *)
(* code after the await runs: both texts are parsed and the report built *)
TopolReviewerReturns(r) ==
    /\ workflow = "topol" /\ pc = "t_await" /\ inflight[r].status = "sent"
    /\ \E tokens \in TokenCosts, parseable \in BOOLEAN,
          recommendation \in ReviewRecommendation :
         LET flights == [inflight EXCEPT ![r] = [status |-> "ok", parseable |-> parseable,
                                                 recommendation |-> recommendation]]
             feedback(k) == [reviewerSpecialty |-> assessment[1].selectedReviewers[k],
                             recommendation |-> flights[k].recommendation]
         IN  /\ inflight' = flights
             /\ spent' = spent + tokens
             /\ tokenUsage' = UsageAfterCall(tokenUsage, tokens)
             /\ IF ~AllResolved(flights)
                THEN /\ calls' = Settle(calls, 1 + r, "ok")
                     /\ UNCHANGED <<pc, result>>
                ELSE IF \E k \in 1..2 : ~flights[k].parseable
                THEN /\ calls' = Settle(Settle(calls, 1 + r, "ok"),
                                        1 + (CHOOSE k \in 1..2 : ~flights[k].parseable),
                                        "failed")
                     /\ result' = Thrown("Could not parse JSON from response")
                     /\ pc' = "done"
                ELSE /\ calls' = Settle(calls, 1 + r, "ok")
                     /\ result' = Returned([editorDecision |-> assessment[1],
                                            reviews |-> <<feedback(1), feedback(2)>>])
                     /\ pc' = "done"
    /\ UNCHANGED <<workflow, apiKeySet, isPlainText, textLen, onProgress, progress,
                   i, call, assessment,
                   reviews, iterations, parseVars, requests>>

(* a reviewer call still in flight when the request was answered with an *)
(* error completes; its tokens are consumed, nothing else happens *)
TopolLateAnswer(r) ==
    /\ workflow = "topol" /\ pc = "done" /\ inflight[r].status = "sent"
    /\ \E tokens \in TokenCosts :
         /\ spent' = spent + tokens
         /\ tokenUsage' = UsageAfterCall(tokenUsage, tokens)
    /\ inflight' = [inflight EXCEPT ![r].status = "late"]
    /\ UNCHANGED <<workflow, apiKeySet, isPlainText, textLen, onProgress, progress,
                   pc, i, call, assessment,
                   reviews, iterations, result, calls, parseVars, requests>>

----------------------------------------------------------------------------
(* Response parser: parseClaudeJSON (lib/claude/client.ts) and parseJSON   *)
(* (topol-review) are the same code.  A response text is a sequence of     *)
(* lexical units: "{", "}" and ":", "1" for a digit, "q" for a double      *)
(* quote, "F" for a triple backtick, "j" for the word json, "x" for a      *)
(* letter of prose and "s" for a space.                                    *)

Alphabet == {"{", "}", ":", "1", "q", "F", "j", "x", "s"}

Texts == UNION {[1..n -> Alphabet] : n \in 0..MaxTextLen}

(* an object whose string value quotes a code fence: {"x":"```"} *)
QuotedFencePayloads == {<<"{", "q", "x", "q", ":", "q", "F", "q", "}">>}

RECURSIVE SkipWs(_, _)
SkipWs(s, p) == IF p <= Len(s) /\ s[p] = "s" THEN SkipWs(s, p + 1) ELSE p

RECURSIVE IndexOfFrom(_, _, _)
IndexOfFrom(s, c, p) ==
    IF p > Len(s) THEN 0
    ELSE IF s[p] = c THEN p
    ELSE IndexOfFrom(s, c, p + 1)

RECURSIVE LastIndexOfFrom(_, _, _)
LastIndexOfFrom(s, c, p) ==
    IF p < 1 THEN 0
    ELSE IF s[p] = c THEN p
    ELSE LastIndexOfFrom(s, c, p - 1)

RECURSIVE NumberEnd(_, _)
NumberEnd(s, p) == IF p <= Len(s) /\ s[p] = "1" THEN NumberEnd(s, p + 1) ELSE p

StringEnd(s, p) ==
    IF p <= Len(s) /\ s[p] = "q"
    THEN LET e == IndexOfFrom(s, "q", p + 1) IN IF e = 0 THEN 0 ELSE e + 1
    ELSE 0

(* JSON.parse, the grammar: the position after the value that starts at p, *)
(* 0 when no value starts there.  A value is a number, a string or an      *)
(* object with no member or one member (the alphabet has no comma).        *)
RECURSIVE ValueEnd(_, _)
ValueEnd(s, p) ==
    IF p > Len(s) THEN 0
    ELSE IF s[p] = "1" THEN NumberEnd(s, p)
    ELSE IF s[p] = "q" THEN StringEnd(s, p)
    ELSE IF s[p] = "{"
         THEN LET a == SkipWs(s, p + 1)
                  key == StringEnd(s, a)
                  colon == SkipWs(s, key)
                  v == ValueEnd(s, SkipWs(s, colon + 1))
                  b == SkipWs(s, v)
              IN  IF a > Len(s) THEN 0
                  ELSE IF s[a] = "}" THEN a + 1
                  ELSE IF key = 0 THEN 0
                  ELSE IF colon > Len(s) \/ s[colon] # ":" THEN 0
                  ELSE IF v = 0 THEN 0
                  ELSE IF b <= Len(s) /\ s[b] = "}" THEN b + 1
                  ELSE 0
    ELSE 0

(* the parsed value: the text of the value without insignificant whitespace *)
RECURSIVE Canon(_, _, _)
Canon(s, p, inString) ==
    IF p > Len(s) THEN <<>>
    ELSE IF s[p] = "q" THEN <<"q">> \o Canon(s, p + 1, ~inString)
    ELSE IF s[p] = "s" /\ ~inString THEN Canon(s, p + 1, inString)
    ELSE <<s[p]>> \o Canon(s, p + 1, inString)

JSONParse(s) ==
    LET a == SkipWs(s, 1)
        e == ValueEnd(s, a)
    IN  IF e # 0 /\ SkipWs(s, e) > Len(s)
        THEN [ok |-> TRUE, value |-> Canon(SubSeq(s, a, e - 1), 1, FALSE)]
        ELSE [ok |-> FALSE, value |-> <<>>]

RECURSIVE TrimRight(_)
TrimRight(s) ==
    IF s # <<>> /\ s[Len(s)] = "s" THEN TrimRight(SubSeq(s, 1, Len(s) - 1)) ELSE s

(* the first position where "```json" occurs *)
RECURSIVE FenceJsonAt(_, _)
FenceJsonAt(s, p) ==
    IF p + 1 > Len(s) THEN 0
    ELSE IF s[p] = "F" /\ s[p + 1] = "j" THEN p
    ELSE FenceJsonAt(s, p + 1)

(* the capture group of /<opening>\s*([\s\S]*?)\s*```/ when the opening    *)
(* literal ends before position after: the greedy \s* eats the whitespace, *)
(* the lazy group stops before the whitespace that precedes the next fence *)
Capture(s, after) ==
    LET a == SkipWs(s, after)
        e == IndexOfFrom(s, "F", a)
    IN  IF e = 0 THEN [found |-> FALSE, group |-> <<>>]
        ELSE [found |-> TRUE, group |-> TrimRight(SubSeq(s, a, e - 1))]

(* text.match(/```json\s*([\s\S]*?)\s*```/) || text.match(/```\s*([\s\S]*?)\s*```/) *)
FenceMatch(s) ==
    LET pj == FenceJsonAt(s, 1)
        pf == IndexOfFrom(s, "F", 1)
    IN  IF pj # 0 /\ Capture(s, pj + 2).found THEN Capture(s, pj + 2)
        ELSE IF pf # 0 THEN Capture(s, pf + 1)
        ELSE [found |-> FALSE, group |-> <<>>]

(* text.substring(jsonStart, jsonEnd + 1); substring swaps its arguments *)
(* when the first is the larger one *)
BraceSubstring(s) ==
    LET jsonStart == IndexOfFrom(s, "{", 1)
        jsonEnd == LastIndexOfFrom(s, "}", Len(s))
    IN  IF jsonStart <= jsonEnd THEN SubSeq(s, jsonStart, jsonEnd)
        ELSE SubSeq(s, jsonEnd + 1, jsonStart - 1)

HasBraces(s) == IndexOfFrom(s, "{", 1) # 0 /\ LastIndexOfFrom(s, "}", Len(s)) # 0

(* the catch block has no try of its own: a JSON.parse that throws in it *)
(* leaves the function with a SyntaxError *)
parseClaudeJSON(responseText) ==
    LET whole == JSONParse(responseText)
        jsonMatch == FenceMatch(responseText)
        fenced == JSONParse(jsonMatch.group)
        braced == JSONParse(BraceSubstring(responseText))
    IN  IF whole.ok THEN [outcome |-> "value", value |-> whole.value, strategy |-> 1]
        ELSE IF jsonMatch.found
        THEN IF fenced.ok
             THEN [outcome |-> "value", value |-> fenced.value, strategy |-> 2]
             ELSE [outcome |-> "SyntaxError", value |-> <<>>, strategy |-> 2]
        ELSE IF HasBraces(responseText)
        THEN IF braced.ok
             THEN [outcome |-> "value", value |-> braced.value, strategy |-> 3]
             ELSE [outcome |-> "SyntaxError", value |-> <<>>, strategy |-> 3]
        ELSE [outcome |-> "Error", value |-> <<>>, strategy |-> 0]

NotParsed == [outcome |-> "none", value |-> <<>>, strategy |-> 0]

(* what the model puts around its payload: nothing, a code fence, a fence *)
(* tagged json, or a word of prose before and after *)
Wrappings == {"bare", "fence", "json fence", "prose"}

Wrap(w, payload) ==
    CASE w = "bare" -> payload
      [] w = "fence" -> <<"F", "s">> \o payload \o <<"s", "F">>
      [] w = "json fence" -> <<"F", "j", "s">> \o payload \o <<"s", "F">>
      [] w = "prose" -> <<"x", "s">> \o payload \o <<"s", "x">>

(* the response text handed to the parser *)
Response == Wrap(wrapping, text)

ParseResponse ==
    /\ workflow = "parse" /\ parsed = NotParsed
    /\ parsed' = parseClaudeJSON(Response)
    /\ UNCHANGED <<runVars, text, wrapping, requests>>

----------------------------------------------------------------------------
(* The module-level token counter of lib/claude/client.ts under two        *)
(* overlapping requests.  A request resets the counter when it starts,     *)
(* checks it before each call, and the gateway adds the usage of each      *)
(* successful call; `own` is what the request itself has consumed, `seen`  *)
(* the value of the counter the last time the request read or wrote it.    *)

NoRequests == [r \in 1..2 |-> [stage |-> "idle", calls |-> 0, own |-> 0, seen |-> 0,
                               error |-> ""]]

recordUsage(used, tokens) == used + tokens

RequestBegins(r) ==
    /\ workflow = "shared" /\ requests[r].stage = "idle"
    /\ tokenUsage' = resetTokenUsage
    /\ requests' = [requests EXCEPT ![r].stage = "ready", ![r].seen = tokenUsage']
    /\ UNCHANGED <<workflow, apiKeySet, isPlainText, textLen, onProgress, progress, pc, i, call,
                   assessment, reviews, iterations, result, calls, inflight, spent,
                   parseVars>>

RequestCalls(r) ==
    /\ workflow = "shared" /\ requests[r].stage = "ready"
    /\ requests[r].calls < CallsPerRequest
    /\ requests' = IF checkTokenLimit(tokenUsage)
                   THEN [requests EXCEPT ![r].stage = "waiting", ![r].calls = @ + 1,
                                         ![r].seen = tokenUsage]
                   ELSE [requests EXCEPT ![r].stage = "done", ![r].seen = tokenUsage,
                                         ![r].error = "Token limit exceeded"]
    /\ UNCHANGED <<runVars, parseVars>>

RequestAnswered(r) ==
    /\ workflow = "shared" /\ requests[r].stage = "waiting"
    /\ \E tokens \in TokenCosts :
         /\ tokenUsage' = recordUsage(tokenUsage, tokens)
         /\ requests' = [requests EXCEPT ![r].stage = "ready", ![r].own = @ + tokens,
                                         ![r].seen = tokenUsage']
    /\ UNCHANGED <<workflow, apiKeySet, isPlainText, textLen, onProgress, progress, pc, i, call,
                   assessment, reviews, iterations, result, calls, inflight, spent,
                   parseVars>>

RequestEnds(r) ==
    /\ workflow = "shared" /\ requests[r].stage = "ready"
    /\ requests' = [requests EXCEPT ![r].stage = "done", ![r].seen = tokenUsage]
    /\ UNCHANGED <<runVars, parseVars>>

----------------------------------------------------------------------------

InitRun ==
    /\ workflow \in {"review", "topol"}
    /\ apiKeySet \in BOOLEAN
    /\ isPlainText \in BOOLEAN
    /\ textLen \in TextLengths(isPlainText)
    /\ onProgress \in Callbacks
    /\ workflow = "topol" => isPlainText /\ onProgress = "absent"
    /\ progress = <<>>
    /\ pc = "start"
    /\ i = 0
    /\ call = NoCall
    /\ assessment = <<>>
    /\ reviews = <<>>
    /\ iterations = <<>>
    /\ result = NoResult
    /\ calls = <<>>
    /\ inflight = NoFlight
    /\ tokenUsage = 0
    /\ spent = 0

Init ==
    /\ InitRun
    /\ text = <<>>
    /\ wrapping = "bare"
    /\ parsed = NotParsed
    /\ requests = NoRequests

Next ==
    \/ Start
    \/ ExtractPdf
    \/ FetchCriteria
    \/ Dispatch
    \/ RespondRateLimit
    \/ RespondError
    \/ RespondUnparseable
    \/ EditorReturns
    \/ Reviewer1Returns
    \/ Reviewer2Returns
    \/ SynthesisReturns
    \/ TopolStart
    \/ TopolEditorFails
    \/ TopolEditorReturns
    \/ \E r \in 1..2 : TopolReviewerFails(r)
    \/ \E r \in 1..2 : TopolReviewerReturns(r)
    \/ \E r \in 1..2 : TopolLateAnswer(r)

Spec == Init /\ [][Next]_vars

(* the parser applied to every response text up to the length bound *)
InitParse ==
    /\ workflow = "parse"
    /\ apiKeySet = TRUE /\ isPlainText = TRUE /\ textLen = MinPlainTextLength
    /\ onProgress = "absent" /\ progress = <<>>
    /\ requests = NoRequests
    /\ pc = "start" /\ i = 0 /\ call = NoCall
    /\ assessment = <<>> /\ reviews = <<>> /\ iterations = <<>>
    /\ result = NoResult /\ calls = <<>> /\ inflight = NoFlight
    /\ tokenUsage = 0 /\ spent = 0
    /\ text \in Texts \cup QuotedFencePayloads
    /\ wrapping \in Wrappings
    /\ parsed = NotParsed

NextParse == ParseResponse

SpecParse == InitParse /\ [][NextParse]_vars

(* two requests against the one token counter *)
InitShared ==
    /\ workflow = "shared"
    /\ apiKeySet = TRUE /\ isPlainText = TRUE /\ textLen = MinPlainTextLength
    /\ onProgress = "absent" /\ progress = <<>>
    /\ pc = "start" /\ i = 0 /\ call = NoCall
    /\ assessment = <<>> /\ reviews = <<>> /\ iterations = <<>>
    /\ result = NoResult /\ calls = <<>> /\ inflight = NoFlight
    /\ tokenUsage \in {0} \cup TokenCosts /\ spent = 0
    /\ text = <<>> /\ wrapping = "bare" /\ parsed = NotParsed
    /\ requests = NoRequests

NextShared ==
    \/ \E r \in 1..2 : RequestBegins(r)
    \/ \E r \in 1..2 : RequestCalls(r)
    \/ \E r \in 1..2 : RequestAnswered(r)
    \/ \E r \in 1..2 : RequestEnds(r)

SpecShared == InitShared /\ [][NextShared]_vars

----------------------------------------------------------------------------
(* Properties *)

IsReview == workflow = "review"

IsTopol == workflow = "topol"

HasReport == result.kind = "report"

DeskRejected == assessment # <<>> /\ assessment[1].decision = "Desk Reject"

CallsOf(role, round) ==
    {k \in 1..Len(calls) : calls[k].role = role /\ calls[k].round = round}

(* C1: a report of the orchestrator has 0 rounds (desk reject only) or 1 to 3 *)
(* rounds, and no call of a 4th round is ever made *)
C1_RoundCap ==
    IsReview =>
        /\ \A k \in 1..Len(calls) : calls[k].round \in 1..3
        /\ Len(iterations) <= 3
        /\ HasReport =>
             /\ result.report[1].totalIterations \in 0..3
             /\ result.report[1].totalIterations = 0 <=> DeskRejected

C1_Witness ==
    /\ IsReview /\ HasReport
    /\ result.report[1].totalIterations = 3
    /\ result.report[1].iterations[2].synthesis[1].decision = "Continue"
    /\ result.report[1].iterations[2].synthesis[1].shouldContinue

ClaimStop(iteration) ==
    \/ iteration.synthesis[1].decision \in {"Accept", "Reject"}
    \/ /\ iteration.reviews[1].recommendation \in {"Accept", "Minor Revisions"}
       /\ iteration.reviews[2].recommendation \in {"Accept", "Minor Revisions"}

(* C2: once round k < 3 ended with synthesis Accept or Reject, or with both *)
(* reviewers in {Accept, Minor Revisions}, no call of round k+1 exists and *)
(* the report returned has exactly k rounds *)
C2_NoNextRound ==
    IsReview =>
        \A k \in 1..Len(iterations) :
            (k < 3 /\ iterations[k].synthesis # <<>> /\ ClaimStop(iterations[k])) =>
                /\ \A c \in 1..Len(calls) : calls[c].round <= k
                /\ HasReport
                /\ result.report[1].totalIterations = k
                /\ Len(result.report[1].iterations) = k

C2_Witness ==
    /\ IsReview /\ HasReport
    /\ result.report[1].totalIterations = 2
    /\ iterations[2].synthesis[1].decision = "Continue"
    /\ iterations[2].reviews[1].recommendation = "Minor Revisions"
    /\ iterations[2].reviews[2].recommendation = "Accept"

(* C3: after a desk-reject classification the classification call is the *)
(* only gateway call, and the run returns a report with zero rounds, no *)
(* iteration and a non-empty rationale that contains the classification *)
(* rationale (topol-review: a report with no review that carries the *)
(* editor's decision) *)
C3_DeskReject ==
    DeskRejected =>
        /\ Len(calls) = 1 /\ calls[1].role = "editor"
        /\ \A r \in 1..2 : inflight[r].status = "none"
        /\ HasReport
        /\ IF IsReview
           THEN /\ result.report[1].totalIterations = 0
                /\ result.report[1].iterations = <<>>
                /\ \E p \in 1..Len(result.report[1].finalRationale) :
                       result.report[1].finalRationale[p] # ""
                /\ \E p \in 1..Len(result.report[1].finalRationale) :
                       result.report[1].finalRationale[p] = assessment[1].rationale
           ELSE /\ result.report[1].reviews = <<>>
                /\ result.report[1].editorDecision = assessment[1]

C3_Witness ==
    /\ IsReview /\ DeskRejected /\ HasReport
    /\ assessment[1].rationale = "out of scope"
    /\ pc = "done"

(* C4: when a gateway call or the parse of its response failed for good, *)
(* the caller gets the error and no report, whatever rounds were completed *)
C4_NoPartialReport ==
    (\E k \in 1..Len(calls) : calls[k].outcome = "failed") =>
        /\ pc = "done"
        /\ result.kind = "error"
        /\ result.report = <<>>

C4_Witness ==
    /\ IsReview /\ Len(iterations) = 2
    /\ calls[Len(calls)].outcome = "failed"
    /\ calls[Len(calls)].round = 3
    /\ result.kind = "error"

C6_CeilingRespected == spent <= TokenLimit

(* C7: a rate-limited call is dispatched at most 4 times (3 retries); when *)
(* the last retry is rate-limited too the call throws, and a call that was *)
(* retried and then answered goes on with the answer *)
C7_RetryBound ==
    IsReview =>
        /\ call.dispatches <= 4
        /\ call.status \in {"delay", "waiting"} => call.retryCount <= 3
        /\ call.status = "waiting" => call.dispatches = call.retryCount + 1
        /\ call.retryCount > 3 =>
             /\ call.retryCount = 4 /\ call.dispatches = 4
             /\ call.status = "threw"
             /\ result.kind = "error"
             /\ calls[Len(calls)].outcome = "failed"
        /\ (call.status = "returned" /\ HasReport) => calls[Len(calls)].outcome = "ok"

C7_Witness ==
    /\ IsReview /\ call.status = "threw"
    /\ call.retryCount = 4 /\ call.dispatches = 4
    /\ result.kind = "error"

C7_WitnessRetrySucceeds ==
    /\ IsReview /\ HasReport
    /\ call.retryCount = 3 /\ call.dispatches = 4
    /\ call.status = "returned"

(* C8: in a returned report only round 3 can lack a synthesis; every round *)
(* below 3 has one, the round of an early stop included *)
C8_SynthesisPresence ==
    (IsReview /\ HasReport) =>
        \A k \in 1..Len(result.report[1].iterations) :
            LET iteration == result.report[1].iterations[k]
            IN  /\ iteration.synthesis = <<>> =>
                     /\ iteration.iterationNumber = 3
                     /\ result.report[1].totalIterations = 3
                /\ iteration.iterationNumber < 3 => iteration.synthesis # <<>>

C8_Witness ==
    /\ IsReview /\ HasReport
    /\ result.report[1].totalIterations = 3
    /\ result.report[1].iterations[3].synthesis = <<>>
    /\ result.report[1].iterations[1].synthesis # <<>>
    /\ result.report[1].iterations[2].synthesis # <<>>

ClaimOrdinal(rec) ==
    IF rec = "Reject" THEN 1
    ELSE IF rec = "Major Revisions" THEN 2
    ELSE IF rec = "Minor Revisions" THEN 3
    ELSE 4

(* ten times the average of the two ordinals, so that 3.5 is 35 *)
ClaimBucket(a, b) ==
    LET avg10 == 5 * (ClaimOrdinal(a) + ClaimOrdinal(b))
    IN  IF avg10 >= 35 THEN "Accept"
        ELSE IF avg10 >= 25 THEN "Minor Revisions"
        ELSE IF avg10 >= 15 THEN "Major Revisions"
        ELSE "Reject"

(* C9: the final recommendation of a report with rounds is the bucket of *)
(* the average ordinal of the last round's two recommendations, and it is *)
(* the same with the two reviewers swapped *)
C9_AverageBucket ==
    (IsReview /\ HasReport /\ ~DeskRejected) =>
        LET last == result.report[1].iterations[result.report[1].totalIterations].reviews
        IN  /\ result.report[1].finalRecommendation
                 = ClaimBucket(last[1].recommendation, last[2].recommendation)
            /\ result.report[1].finalRecommendation
                 = determineFinalRecommendation(<<last[2], last[1]>>)

C9_Witness ==
    /\ IsReview /\ HasReport /\ ~DeskRejected
    /\ iterations[Len(iterations)].reviews[1].recommendation = "Minor Revisions"
    /\ iterations[Len(iterations)].reviews[2].recommendation = "Major Revisions"
    /\ result.report[1].finalRecommendation = "Minor Revisions"

C9_WitnessAcceptMinor ==
    /\ IsReview /\ HasReport /\ ~DeskRejected
    /\ iterations[Len(iterations)].reviews[1].recommendation = "Accept"
    /\ iterations[Len(iterations)].reviews[2].recommendation = "Minor Revisions"
    /\ result.report[1].finalRecommendation = "Accept"

(* C10: the parser fails only when all three strategies fail; a response *)
(* whose fenced block does not parse while its outermost brace-delimited *)
(* substring does is accepted with the value of that substring *)
C10_ThirdStrategyAfterFence ==
    parsed # NotParsed =>
        /\ parsed.outcome # "value" =>
             /\ ~JSONParse(Response).ok
             /\ ~(FenceMatch(Response).found /\ JSONParse(FenceMatch(Response).group).ok)
             /\ ~(HasBraces(Response) /\ JSONParse(BraceSubstring(Response)).ok)
        /\ (/\ ~JSONParse(Response).ok
            /\ FenceMatch(Response).found /\ ~JSONParse(FenceMatch(Response).group).ok
            /\ HasBraces(Response) /\ JSONParse(BraceSubstring(Response)).ok) =>
             /\ parsed.outcome = "value"
             /\ parsed.value = JSONParse(BraceSubstring(Response)).value

(* C11: typed text of fewer than 100 characters never leads to a gateway *)
(* call and ends the request with an error, which is the input error *)
(* whenever the length check is reached (key set, callback not throwing); *)
(* typed text of 100 characters or more is not rejected by the length *)
(* check and goes on to the classification *)
C11_PlainTextMinimum ==
    (workflow \in {"review", "topol"} /\ isPlainText) =>
        /\ textLen < 100 =>
             /\ calls = <<>>
             /\ pc \in {"start", "done"}
             /\ pc = "done" =>
                  /\ result.kind = "error"
                  /\ (IsTopol \/ (apiKeySet /\ ~CallbackThrows)) =>
                       result.error \in {"Article text is too short",
                                         "Article text must be at least 100 characters"}
        /\ textLen >= 100 =>
             /\ result.error \notin {"Article text is too short",
                                     "Article text must be at least 100 characters"}
             /\ (pc # "start" /\ (IsTopol \/ (apiKeySet /\ ~CallbackThrows))) =>
                  \/ pc = "criteria"
                  \/ Len(calls) >= 1 /\ calls[1].role = "editor"

C11_Witness ==
    /\ IsReview /\ isPlainText /\ textLen = 99 /\ apiKeySet
    /\ pc = "done" /\ calls = <<>>
    /\ result.error = "Article text is too short"

C11_WitnessAccepted ==
    /\ IsReview /\ isPlainText /\ textLen = 100
    /\ Len(calls) >= 1 /\ calls[1].role = "editor" /\ calls[1].outcome = "ok"

(* C12: with no API key the request ends with the missing-key error, and *)
(* no gateway call is made and no other stage is entered before that *)
C12_MissingKeyFailsFirst ==
    (workflow \in {"review", "topol"} /\ ~apiKeySet) =>
        /\ calls = <<>>
        /\ pc \in {"start", "done"}
        /\ pc = "done" =>
             /\ result.kind = "error"
             /\ result.error = "ANTHROPIC_API_KEY environment variable is not set"

(* C13: the token counter of a topol-review request is the sum of the *)
(* tokens of the calls of the request that were answered so far: zero when *)
(* the request starts, larger after each answered call *)
C13_CounterIsSumOfCalls ==
    (IsTopol /\ pc # "start") => tokenUsage = spent

C15_RetryTransparent ==
    [][(IsReview /\ call.status = "waiting" /\ call'.retryCount > call.retryCount
          /\ call'.status = "delay") =>
            /\ call'.role = call.role /\ call'.round = call.round
            /\ call'.round = IF call.role = "editor" THEN 1 ELSE i
            /\ UNCHANGED <<pc, i, assessment, reviews, iterations, result, calls>>]_vars

C15_Witness ==
    /\ IsReview /\ HasReport
    /\ call.retryCount = 1 /\ call.dispatches = 2
    /\ result.report[1].totalIterations = 2
    /\ \A k \in 1..Len(calls) : calls[k].outcome = "ok"

(* C16: a payload that parses as a whole text gives the same value when *)
(* the response carries it inside a code fence, inside a fence tagged json *)
(* or between words of prose *)
C16_WrappingInsensitive ==
    (workflow = "parse" /\ parsed # NotParsed /\ JSONParse(text).ok) =>
        /\ parsed.outcome = "value"
        /\ parsed.value = JSONParse(text).value

(* C17: the prompts of the two reviewers of a round carry the same texts *)
(* of the manuscript (those of the editor's prompt) and the same editorial *)
(* guidance, each its own specialty as the editor assigned it, and no *)
(* reviewer feedback: what is sent to one reviewer is fixed by the *)
(* manuscript and the classification, whatever the other reviewer, or a *)
(* reviewer of an earlier round, answered *)
C17_ReviewerPromptsIndependent ==
    workflow \in {"review", "topol"} =>
        \A n \in 1..3 :
            /\ \A a \in CallsOf("reviewer1", n), b \in CallsOf("reviewer2", n) :
                  /\ calls[a].prompt.text = calls[b].prompt.text
                  /\ calls[a].prompt.guidance = calls[b].prompt.guidance
            /\ \A r \in 1..2 :
                 \A k \in CallsOf(IF r = 1 THEN "reviewer1" ELSE "reviewer2", n) :
                    /\ calls[k].prompt.text = calls[1].prompt.text
                    /\ calls[k].prompt.specialty = <<assessment[1].selectedReviewers[r]>>
                    /\ calls[k].prompt.guidance =
                         IF IsTopol THEN <<assessment[1].guidanceForReviewers>> ELSE <<>>
                    /\ calls[k].prompt.feedback = <<>>

C17_Witness ==
    /\ IsReview /\ Len(iterations) >= 2
    /\ iterations[1].reviews[1].recommendation = "Reject"
    /\ iterations[2].reviews[1].recommendation = "Accept"
    /\ CallsOf("reviewer2", 3) # {}

C17_WitnessTopol ==
    /\ IsTopol /\ pc = "t_await"
    /\ inflight[1].status = "ok" /\ inflight[2].status = "sent"
    /\ assessment[1].guidanceForReviewers = "check the statistics"

(* C18: what the progress callback does has no part in how the run ends: *)
(* a run never ends with an error that came out of the callback *)
C18_CallbackObservational ==
    IsReview => result.error # "progress callback threw"

ClaimCut(len) ==
    [kept |-> IF len > 15000 THEN 15000 ELSE len,
     suffix |-> IF len > 15000 THEN "[Article truncated due to length...]" ELSE ""]

ClaimCount(roles) == Cardinality({k \in 1..Len(calls) : calls[k].role \in roles})

C20_WitnessThreeRounds ==
    /\ IsReview /\ HasReport
    /\ result.report[1].totalIterations = 3
    /\ ClaimCount({"synthesis"}) = 2
    /\ ClaimCount({"reviewer1", "reviewer2"}) = 6

ClaimNegative(rec) == rec \in {"Major Revisions", "Reject"}

(* C21: when a round k < 3 was recorded with synthesis decision Continue *)
(* and a reviewer recommending Major Revisions or Reject, round k+1 has *)
(* been started (its first reviewer call exists) whatever shouldContinue *)
(* says, and a report returned later has more than k rounds; with (Major *)
(* Revisions, Major Revisions) and Continue throughout the report has 3 *)
(* rounds, no synthesis in round 3 and recommends Major Revisions *)
C21_ContinueAdvances ==
    IsReview =>
        /\ \A k \in 1..Len(iterations) :
              (/\ k < 3 /\ iterations[k].synthesis # <<>>
               /\ iterations[k].synthesis[1].decision = "Continue"
               /\ \/ ClaimNegative(iterations[k].reviews[1].recommendation)
                  \/ ClaimNegative(iterations[k].reviews[2].recommendation)) =>
                    /\ CallsOf("reviewer1", k + 1) # {}
                    /\ i > k
                    /\ HasReport => result.report[1].totalIterations > k
        /\ (/\ HasReport
            /\ \A k \in 1..Len(iterations) :
                  /\ iterations[k].reviews[1].recommendation = "Major Revisions"
                  /\ iterations[k].reviews[2].recommendation = "Major Revisions"
                  /\ iterations[k].synthesis # <<>> =>
                        iterations[k].synthesis[1].decision = "Continue"
            /\ ~DeskRejected) =>
                /\ result.report[1].totalIterations = 3
                /\ result.report[1].iterations[3].synthesis = <<>>
                /\ result.report[1].finalRecommendation = "Major Revisions"

C21_Witness ==
    /\ IsReview /\ HasReport
    /\ result.report[1].totalIterations = 3
    /\ \A k \in 1..3 :
          /\ iterations[k].reviews[1].recommendation = "Major Revisions"
          /\ iterations[k].reviews[2].recommendation = "Major Revisions"
    /\ \A k \in 1..2 :
          /\ iterations[k].synthesis[1].decision = "Continue"
          /\ ~iterations[k].synthesis[1].shouldContinue

ClaimPending == {k \in 1..Len(calls) : calls[k].outcome = "pending"}

(* C22: in the order in which the calls were issued, a reviewer call comes *)
(* after the completed classification call, the synthesis call of a round *)
(* after the two completed reviewer calls of that round, and a reviewer *)
(* call of round r+1 after the completed synthesis of round r; the only *)
(* calls ever in flight together are the two reviewer calls of one round *)
C22_CallsSequential ==
    workflow \in {"review", "topol"} =>
        /\ \A k \in 1..Len(calls) :
              /\ calls[k].role \in {"reviewer1", "reviewer2"} =>
                    /\ calls[1].role = "editor" /\ calls[1].outcome = "ok" /\ k > 1
                    /\ calls[k].round > 1 =>
                          \E s \in CallsOf("synthesis", calls[k].round - 1) :
                              s < k /\ calls[s].outcome = "ok"
              /\ calls[k].role = "synthesis" =>
                    /\ \E a \in CallsOf("reviewer1", calls[k].round) :
                          a < k /\ calls[a].outcome = "ok"
                    /\ \E b \in CallsOf("reviewer2", calls[k].round) :
                          b < k /\ calls[b].outcome = "ok"
              /\ calls[k].role = "editor" => k = 1
        /\ \A a \in ClaimPending, b \in ClaimPending :
              a # b => /\ {calls[a].role, calls[b].role} = {"reviewer1", "reviewer2"}
                       /\ calls[a].round = calls[b].round

C22_Witness ==
    /\ IsReview /\ pc = "call" /\ call.status = "waiting"
    /\ call.role = "reviewer1" /\ call.round = 3
    /\ ClaimPending = {Len(calls)}
    /\ Len(calls) = 8

C22_WitnessTopol ==
    /\ IsTopol /\ pc = "t_await"
    /\ ClaimPending = {2, 3}

(* C23: a call ends with a network failure only after it was dispatched *)
(* 4 times (3 retries), as with the rate-limit error *)
C23_NetworkFailureRetried ==
    (IsReview /\ call.status = "threw" /\ call.error = "network failure") =>
        /\ call.retryCount = 4
        /\ call.dispatches = 4

----------------------------------------------------------------------------
(* orchestrateReview alone, with every dispatched request answered: the    *)
(* event loop runs each continuation that is ready, and the API answers    *)
(* every request with a message or an error.                               *)
InitOrchestrator == Init /\ workflow = "review"

NextOrchestrator ==
    \/ Start
    \/ ExtractPdf
    \/ FetchCriteria
    \/ Dispatch
    \/ RespondRateLimit
    \/ RespondError
    \/ RespondUnparseable
    \/ EditorReturns
    \/ Reviewer1Returns
    \/ Reviewer2Returns
    \/ SynthesisReturns

SpecOrchestrator ==
    InitOrchestrator /\ [][NextOrchestrator]_vars /\ WF_vars(NextOrchestrator)

(* C24: when every dispatch is answered, every run of the orchestrator *)
(* ends, with a report or an error, and on the way never exceeds 3 rounds, *)
(* 9 logical calls and 4 dispatches of one call *)
C24_Terminates ==
    /\ [](/\ i <= 3
          /\ Len(calls) <= 9
          /\ call.dispatches <= 4)
    /\ <>(pc = "done" /\ result.kind \in {"report", "error"})

C24_Witness ==
    /\ pc = "done" /\ result.kind = "report"
    /\ i = 3 /\ Len(calls) = 9
    /\ \E k \in 1..Len(calls) : calls[k].outcome = "ok"

ClaimReviewerRoles == {"reviewer1", "reviewer2"}

(* C25: a reviewer call of round 2 or 3 carries exactly the prompt of the *)
(* same reviewer's call of round 1 (specialty and manuscript text), so *)
(* nothing of the reviews or the synthesis of an earlier round is in it *)
C25_LaterRoundsSameInputs ==
    IsReview =>
        \A role \in ClaimReviewerRoles, n \in 2..3 :
            \A k \in CallsOf(role, n) :
                /\ CallsOf(role, 1) # {}
                /\ \A j \in CallsOf(role, 1) : calls[k].prompt = calls[j].prompt

C25_Witness ==
    /\ IsReview /\ Len(iterations) = 2
    /\ iterations[1].synthesis[1].shouldContinue
    /\ ~iterations[2].synthesis[1].shouldContinue
    /\ iterations[2].reviews[2].recommendation = "Major Revisions"
    /\ CallsOf("reviewer1", 3) # {} /\ CallsOf("reviewer2", 3) # {}

(* the history with the synthesis decision of its last round replaced *)
ClaimWithDecision(its, decision) ==
    [its EXCEPT ![Len(its)].synthesis = <<[@[1] EXCEPT !.decision = decision]>>]

(* C26: the final recommendation of a report is the average bucket of the *)
(* last round's two verdicts, and it is the one the report would carry had *)
(* the synthesis of that round decided anything else that also ends the *)
(* run at that round *)
C26_DecisionNotInRecommendation ==
    (IsReview /\ HasReport /\ ~DeskRejected) =>
        LET report == result.report[1]
            its == report.iterations
            last == its[Len(its)]
        IN  /\ report.finalRecommendation =
                 ClaimBucket(last.reviews[1].recommendation, last.reviews[2].recommendation)
            /\ last.synthesis # <<>> =>
                 \A decision \in SynthesisDecisions :
                    StopIterating([last.synthesis[1] EXCEPT !.decision = decision],
                                  last.reviews[1], last.reviews[2]) =>
                        generateFinalReport(ClaimWithDecision(its, decision)).finalRecommendation
                            = report.finalRecommendation

C26_Witness ==
    /\ IsReview /\ HasReport /\ ~DeskRejected
    /\ result.report[1].totalIterations = 1
    /\ result.report[1].iterations[1].synthesis[1].decision = "Reject"
    /\ result.report[1].iterations[1].reviews[1].recommendation = "Accept"
    /\ result.report[1].iterations[1].reviews[2].recommendation = "Minor Revisions"
    /\ result.report[1].finalRecommendation = "Accept"
    /\ assessment[1].decision # result.report[1].finalRecommendation

(* C27: in every round of a report, review 1 and review 2 carry the *)
(* specialties of the first and the second reviewer selected by the *)
(* editorial assessment, in that order *)
C27_SpecialtiesFixed ==
    (IsReview /\ HasReport) =>
        \A k \in 1..Len(result.report[1].iterations) :
            \A r \in 1..2 :
                result.report[1].iterations[k].reviews[r].reviewerSpecialty
                    = result.report[1].iterations[1].editorialAssessment[1].selectedReviewers[r]

C27_Witness ==
    /\ IsReview /\ HasReport
    /\ result.report[1].totalIterations = 3
    /\ result.report[1].iterations[3].reviews[1].reviewerSpecialty = "Biostatistics"
    /\ result.report[1].iterations[3].reviews[2].reviewerSpecialty = "Cardiology"
    /\ result.report[1].iterations[1].reviews[1].recommendation = "Reject"

ClaimWellFormed(report) ==
    /\ report.totalIterations = Len(report.iterations)
    /\ \A k \in 1..Len(report.iterations) :
          /\ report.iterations[k].iterationNumber = k
          /\ Len(report.iterations[k].reviews) = 2
          /\ (report.iterations[k].editorialAssessment # <<>>) <=> (k = 1)
          /\ k = 1 => report.iterations[k].editorialAssessment = assessment

(* C28: the history only grows, one record at a time at its end, and in *)
(* every returned report the k-th record has round number k and two *)
(* reviews, carries the classification exactly when k = 1, and *)
(* totalIterations is the length of the history *)
C28_HistoryAppendOnly ==
    /\ []((IsReview /\ HasReport) =>
              /\ ClaimWellFormed(result.report[1])
              /\ result.report[1].iterations = iterations)
    /\ [][IsReview =>
            \/ iterations' = iterations
            \/ /\ Len(iterations') = Len(iterations) + 1
               /\ SubSeq(iterations', 1, Len(iterations)) = iterations]_vars

C28_Witness ==
    /\ IsReview /\ HasReport
    /\ Len(result.report[1].iterations) = 3
    /\ result.report[1].iterations[2].synthesis # <<>>
    /\ result.report[1].iterations[3].synthesis = <<>>
    /\ result.report[1].iterations[2].reviews[2].recommendation = "Reject"

(* C29: the percentages received by the progress callback never decrease *)
(* and stay within 0..100; when a report with at least one round is *)
(* returned the last percentage received is 100, and a desk-rejected run *)
(* returns without a call of the 'complete' stage *)
C29_ProgressMonotone ==
    IsReview =>
        /\ \A k \in 1..Len(progress) :
              /\ progress[k].pct \in 0..100
              /\ k > 1 => progress[k - 1].pct <= progress[k].pct
        /\ (HasReport /\ ~DeskRejected /\ onProgress # "absent") =>
              /\ result.report[1].totalIterations >= 1
              /\ progress[Len(progress)] = [stage |-> "complete", pct |-> 100]
        /\ (HasReport /\ DeskRejected) =>
              \A k \in 1..Len(progress) : progress[k].stage # "complete"

C29_Witness ==
    /\ IsReview /\ HasReport /\ onProgress = "returns"
    /\ result.report[1].totalIterations = 3
    /\ Len(progress) = 13
    /\ progress[11].pct = 75

C29_WitnessDeskReject ==
    /\ IsReview /\ HasReport /\ DeskRejected /\ onProgress = "returns"
    /\ ~isPlainText
    /\ Len(progress) = 3 /\ progress[3].pct = 15

(* C30: the trajectory analysis of a report has its 1-to-2 entry exactly *)
(* when the report has at least 2 rounds, and the entry then holds the *)
(* simulated revisions and the critical issues of the synthesis of round *)
(* 2; it has its 2-to-3 entry exactly when the report has 3 rounds, and *)
(* both lists of that entry are empty, round 3 having no synthesis *)
C30_Trajectory ==
    (IsReview /\ HasReport) =>
        LET report == result.report[1]
            N == report.totalIterations
            t == report.trajectoryAnalysis
        IN  /\ (t.iteration1to2 # <<>>) <=> (N >= 2)
            /\ N >= 2 =>
                 /\ report.iterations[2].synthesis # <<>>
                 /\ t.iteration1to2[1].improvements
                      = report.iterations[2].synthesis[1].simulatedRevisions
                 /\ t.iteration1to2[1].persistentIssues
                      = report.iterations[2].synthesis[1].criticalIssues
            /\ (t.iteration2to3 # <<>>) <=> (N = 3)
            /\ N = 3 =>
                 /\ report.iterations[3].synthesis = <<>>
                 /\ t.iteration2to3[1].improvements = <<>>
                 /\ t.iteration2to3[1].persistentIssues = <<>>

C30_Witness ==
    /\ IsReview /\ HasReport
    /\ result.report[1].totalIterations = 3
    /\ result.report[1].trajectoryAnalysis.iteration1to2[1].improvements
         = <<<<"revision simulated after round", 2>>>>
    /\ result.report[1].trajectoryAnalysis.iteration1to2[1].persistentIssues
         = <<<<"critical issue of round", 2>>>>
    /\ result.report[1].iterations[1].synthesis[1].simulatedRevisions # <<>>

C30_WitnessTwoRounds ==
    /\ IsReview /\ HasReport
    /\ result.report[1].totalIterations = 2
    /\ result.report[1].iterations[2].synthesis[1].decision = "Reject"
    /\ result.report[1].trajectoryAnalysis.iteration1to2[1].improvements = <<>>
    /\ result.report[1].trajectoryAnalysis.iteration1to2[1].persistentIssues # <<>>
    /\ result.report[1].trajectoryAnalysis.iteration2to3 = <<>>

====
